---- MODULE Spec2Model ----
(***************************************************************************)
(* Model of the @ServerImpl annotation pipeline:                           *)
(*   L3_process_and_register.py  check_and_comment_server_impl,            *)
(*                               generate_include_statements,              *)
(*                               generate_registration_code,               *)
(*                               update_server_factory_init, main          *)
(*   L2_comment_server_impl.py   comment_server_impl                       *)
(*                                                                         *)
(* Text is a sequence of tokens.  A token stands for a fixed piece of      *)
(* text: "WS" one blank, "NL" one newline, and a literal such as "/*",     *)
(* "@ServerImpl" or "inline" for itself.  "ESC_1" is the two characters    *)
(* backslash-1 and "ESC_d" the two characters backslash-d.  Offsets into   *)
(* text are 0-based token offsets, as the code's offsets are 0-based       *)
(* character offsets.  The regular expressions of the code are matched     *)
(* token by token, left to right, the way re.search matches them.          *)
(***************************************************************************)
EXTENDS Integers, Sequences, FiniteSets, TLC

VARIABLES
    fs,            \* the source files on disk: absolute path -> entry
    target,        \* <library_dir>/include/ServerProviderInit.h: entry
    regsIn,        \* a registration list handed to the synthesizer
    last,          \* the last operation: its inputs and what it returned
    scanned,       \* absolute path -> "no", or how a rewriting scan of it
                   \* ended before: "clean" (no write) or "rewrote"
    patchedLists   \* argument lists of the batch runs that patched target

vars == <<fs, target, regsIn, last, scanned, patchedLists>>

-----------------------------------------------------------------------------
(* Bounds of the inputs.                                                   *)

MaxIndent == 2
MaxGap == 6
MaxRegs == 3
MaxBlank == 2

-----------------------------------------------------------------------------
(* Text helpers.                                                           *)

Ws == {"WS", "NL"}

Word == {"class", "final", "public", "IServer", "Other", "A", "B", "x", "y"}

Min(a, b) == IF a < b THEN a ELSE b

\* the one value v: binds an intermediate result so it is computed once
The(S) == CHOOSE v \in S : TRUE

\* First position >= p that holds token c (Len(s)+1 when none): [^c]*
FirstAt(s, p, c) ==
    CHOOSE i \in p..(Len(s) + 1) :
        /\ (i = Len(s) + 1 \/ s[i] = c)
        /\ \A k \in p..(i - 1) : s[k] # c

\* str.strip()
Strip(s) ==
    LET keep == {i \in 1..Len(s) : s[i] \notin Ws}
    IN  IF keep = {} THEN <<>>
        ELSE SubSeq(s, CHOOSE i \in keep : \A k \in keep : i <= k,
                       CHOOSE i \in keep : \A k \in keep : i >= k)

RECURSIVE FlattenRange(_, _, _)
\* the concatenation of ss[lo..hi], by halves
FlattenRange(ss, lo, hi) ==
    IF lo > hi THEN <<>>
    ELSE IF lo = hi THEN ss[lo]
    ELSE FlattenRange(ss, lo, (lo + hi) \div 2)
         \o FlattenRange(ss, (lo + hi) \div 2 + 1, hi)

\* f.writelines(lines), '\n'.join without the separator: concatenation
Flatten(ss) == FlattenRange(ss, 1, Len(ss))

\* the positions of c where a line starts
LineStarts(c) == {i \in 1..Len(c) : i = 1 \/ c[i - 1] = "NL"}

\* f.readlines(): every line keeps its newline, the last may have none
ReadLines(c) ==
    The({[k \in 1..Cardinality(starts) |->
            The({SubSeq(c, b, Min(FirstAt(c, b, "NL"), Len(c))) :
                    b \in {x \in starts :
                             Cardinality({y \in starts : y < x}) = k - 1}})]
         \o <<>> : starts \in {LineStarts(c)}})

RECURSIVE Repeat(_, _)
Repeat(s, n) == IF n = 0 THEN <<>> ELSE s \o Repeat(s, n - 1)

-----------------------------------------------------------------------------
(* Regular expressions: a pattern is a list of alternatives, each the      *)
(* concatenation of items, an item being one token of a set or a greedy    *)
(* run of such tokens (star or plus).                                      *)

NoMatch == [ok |-> FALSE]

Lit(t) == [kind |-> "one", set |-> {t}, neg |-> FALSE]
Star(S) == [kind |-> "star", set |-> S, neg |-> FALSE]
Plus(S) == [kind |-> "plus", set |-> S, neg |-> FALSE]
StarNot(S) == [kind |-> "star", set |-> S, neg |-> TRUE]

RECURSIVE Balanced(_, _, _)
\* the concatenation of the items lo..hi, as that of its two halves
Balanced(items, lo, hi) ==
    IF lo = hi THEN items[lo]
    ELSE [kind |-> "cat",
          left |-> Balanced(items, lo, (lo + hi) \div 2),
          right |-> Balanced(items, (lo + hi) \div 2 + 1, hi)]

Concat(items) == Balanced(items, 1, Len(items))

Hit(item, s, p) == p \in 1..Len(s) /\ ((s[p] \in item.set) # item.neg)

\* the end of the longest run of the item's tokens from position p
RunEnd(item, s, p) ==
    CHOOSE e \in p..(Len(s) + 1) :
        /\ ~Hit(item, s, e)
        /\ \A q \in p..(e - 1) : Hit(item, s, q)

\* the position after the item matched at position p, 0 when it does not
\* match (and nothing matches at position 0): a run is greedy
ItemEnd(item, s, p) ==
    IF item.kind = "one" THEN IF Hit(item, s, p) THEN p + 1 ELSE 0
    ELSE IF item.kind = "plus" /\ ~Hit(item, s, p) THEN 0
    ELSE RunEnd(item, s, p)

RECURSIVE MatchSpan(_, _, _)
\* A concatenation matched at position p of s: its first half, then its
\* second half where the first ended.  The j-th element is the position
\* after the j-th item, the last element 0 when an item does not match.  In
\* the patterns of this program no run is followed by an item that accepts
\* a token of the run, so the greedy end of a run is the only one the regex
\* engine can settle on and it never has to give tokens back.
MatchSpan(re, s, p) ==
    IF re.kind = "cat"
    THEN The({IF a[Len(a)] = 0 THEN a
              ELSE a \o MatchSpan(re.right, s, a[Len(a)]) :
                 a \in {MatchSpan(re.left, s, p)}})
    ELSE <<ItemEnd(re, s, p)>>

\* the concatenation re matched at position p of s
MatchAt(re, s, p) ==
    The({IF ends[Len(ends)] = 0 THEN NoMatch
         ELSE [ok |-> TRUE, start |-> p, ends |-> ends] :
            ends \in {MatchSpan(re, s, p)}})

\* the alternatives of a pattern tried in order at position p: the first
\* that matches
TryAlts(res, s, p) ==
    MatchAt(res[CHOOSE a \in 1..Len(res) :
                   /\ MatchAt(res[a], s, p).ok
                   /\ \A b \in 1..(a - 1) : ~MatchAt(res[b], s, p).ok], s, p)

\* pattern.search(s): the leftmost match at or after position p
SearchFrom(res, s, p) ==
    The({IF hits = {} THEN NoMatch
         ELSE TryAlts(res, s, CHOOSE q \in hits : \A k \in hits : q <= k) :
            hits \in {{q \in p..Len(s) :
                         \E a \in 1..Len(res) : MatchAt(res[a], s, q).ok}}})

\* (\s*)/\*\s*@ServerImpl\s*\(([^)]*)\)\s*\*/
server_impl_annotation_pattern ==
    << Concat(<< Star(Ws), Lit("/*"), Star(Ws), Lit("@ServerImpl"), Star(Ws), Lit("("),
          StarNot({")"}), Lit(")"), Star(Ws), Lit("*/") >>) >>

\* /\*--\s*@ServerImpl\s*\([^)]*\)\s*--\*/
server_impl_processed_pattern ==
    << Concat(<< Lit("/*--"), Star(Ws), Lit("@ServerImpl"), Star(Ws), Lit("("),
          StarNot({")"}), Lit(")"), Star(Ws), Lit("--*/") >>) >>

\* class\s+(\w+)(?:\s+final)?\s*:\s*public\s+IServer: first with the
\* optional group taken, then with it skipped
class_pattern ==
    << Concat(<< Lit("class"), Plus(Ws), Plus(Word), Plus(Ws), Lit("final"), Star(Ws),
          Lit(":"), Star(Ws), Lit("public"), Plus(Ws), Lit("IServer") >>),
       Concat(<< Lit("class"), Plus(Ws), Plus(Word), Star(Ws),
          Lit(":"), Star(Ws), Lit("public"), Plus(Ws), Lit("IServer") >>) >>

\* group(1) and group(2) of a match m of server_impl_annotation_pattern
AnnotationGroups(s, m) ==
    IF m.ok
    THEN [ok |-> TRUE, indent |-> SubSeq(s, m.start, m.ends[1] - 1),
          payload |-> SubSeq(s, m.ends[6], m.ends[7] - 1)]
    ELSE NoMatch

\* group(1) of a match m of class_pattern
ClassGroups(s, m) ==
    IF m.ok THEN [ok |-> TRUE, name |-> SubSeq(s, m.ends[2], m.ends[3] - 1)]
    ELSE NoMatch

\* what a pattern finds in one line: the processed and the annotation
\* pattern in line.strip(), the class pattern in the line
LineInfo(line, pat) ==
    IF pat = "processed"
    THEN The({SearchFrom(server_impl_processed_pattern, t, 1) :
                 t \in {Strip(line)}})
    ELSE IF pat = "annotation"
    THEN The({AnnotationGroups(s, m) :
                 <<s, m>> \in {<<t, SearchFrom(server_impl_annotation_pattern, t, 1)>> :
                                 t \in {Strip(line)}}})
    ELSE The({ClassGroups(line, m) : m \in {SearchFrom(class_pattern, line, 1)}})

-----
(* Paths and directory entries.                                            *)

RawPaths == {"a.h", "./a.h", "b.h"}

\* Path(p).resolve(): the working directory is /r
Resolve(p) == IF p \in {"a.h", "./a.h", "/r/a.h"} THEN "/r/a.h" ELSE "/r/b.h"

AbsPaths == {Resolve(p) : p \in RawPaths}

Missing == [kind |-> "missing"]
Dir == [kind |-> "dir"]
File(c) == [kind |-> "file", data |-> c]

-----------------------------------------------------------------------------
(* The scanner and rewriter.                                               *)

\* the stop of range(i + 1, min(i + 6, len(lines)))
LookaheadStop == 6

\* extract_bracket_content
ExtractBracketContent(content) ==
    LET s == Strip(content)
    IN  IF content = <<>> THEN <<>>
        ELSE IF /\ Len(s) >= 1
                /\ \/ (s[1] = "Q" /\ s[Len(s)] = "Q")
                   \/ (s[1] = "SQ" /\ s[Len(s)] = "SQ")
             THEN SubSeq(s, 2, Len(s) - 1)
             ELSE s

ProcessedLineUnmarked(indent, payload) ==
    indent \o <<"/*", "@ServerImpl", "(">> \o payload \o <<")", "*/", "NL">>

\* f"{indent}/*--@ServerImpl({content_part})--*/\n"
ProcessedLine(indent, payload) ==
    indent \o <<"/*--", "@ServerImpl", "(">> \o payload \o <<")", "--*/", "NL">>

LookaheadOneMore(n, i) == (i + 1)..Min(i + LookaheadStop, n)

\* range(i + 1, min(i + 6, len(lines))), for the 1-based line i of n
Lookahead(n, i) == (i + 1)..Min(i + LookaheadStop - 1, n)

\* the first line of the lookahead that holds a class declaration, 0 if none
FirstClass(cls, js) ==
    IF \E j \in js : cls[j].ok
    THEN CHOOSE j \in js : cls[j].ok /\ \A k \in js : cls[k].ok => j <= k
    ELSE 0

\* One turn of the loop over the lines, at the 1-based line i: proc, ann
\* and cls are what the patterns find in each line, j the class line.
ScanLine(proc, ann, cls, i, j) ==
    IF proc[i].ok THEN [hit |-> FALSE]
    ELSE IF ann[i].ok /\ j # 0
    THEN [hit |-> TRUE,
          rewrite |-> ~proc[i].ok,
          line |-> ProcessedLine(ann[i].indent, ann[i].payload),
          class_name |-> cls[j].name,
          content |-> ExtractBracketContent(ann[i].payload)]
    ELSE [hit |-> FALSE]

\* what pattern pat finds in each line
InfoSeq(lines, pat) ==
    [i \in 1..Len(lines) |-> LineInfo(lines[i], pat)] \o <<>>

\* the loop over the lines: what each turn found
ScanFrom(proc, ann, cls) ==
    [i \in 1..Len(proc) |->
        ScanLine(proc, ann, cls, i, FirstClass(cls, Lookahead(Len(proc), i)))]
    \o <<>>

Scan(lines) ==
    The({ScanFrom(proc, ann, cls) :
            proc \in {InfoSeq(lines, "processed")},
            ann \in {InfoSeq(lines, "annotation")},
            cls \in {InfoSeq(lines, "class")}})

\* modified_lines after the loop
ModifiedLines(lines, sc) ==
    [i \in 1..Len(lines) |->
        IF sc[i].hit /\ sc[i].rewrite THEN sc[i].line ELSE lines[i]] \o <<>>

\* result['matches'], in line order
Matches(sc, abs) ==
    Flatten([i \in 1..Len(sc) |->
                IF sc[i].hit
                THEN <<[line_number |-> i,
                        class_name |-> sc[i].class_name,
                        server_impl_content |-> sc[i].content,
                        file_path |-> abs]>>
                ELSE <<>>] \o <<>>)

\* lines_to_comment, in line order
CommentedLines(lines, sc) ==
    Flatten([i \in 1..Len(lines) |->
                IF sc[i].hit /\ sc[i].rewrite
                THEN <<[line_number |-> i,
                        original |-> SelectSeq(lines[i], LAMBDA t : t # "NL"),
                        commented |-> SelectSeq(sc[i].line, LAMBDA t : t # "NL")]>>
                ELSE <<>>] \o <<>>)

ScanError(kind) == IF kind = "missing" THEN "FileNotFound" ELSE "NotAFile"

Modified(sc) == \E i \in 1..Len(sc) : sc[i].hit /\ sc[i].rewrite

CheckResultNotWritten(entry, lines, sc, abs) ==
    [result |-> [found |-> Matches(sc, abs) # <<>>,
                 matches |-> Matches(sc, abs),
                 modified |-> Modified(sc), error |-> "None"],
     entry |-> entry,
     wrote |-> FALSE]

\* check_and_comment_server_impl after the loop: the result and the write
CheckResult(entry, lines, sc, abs) ==
    [result |-> [found |-> Matches(sc, abs) # <<>>,
                 matches |-> Matches(sc, abs),
                 modified |-> Modified(sc), error |-> "None"],
     entry |-> IF Modified(sc) THEN File(Flatten(ModifiedLines(lines, sc)))
               ELSE entry,
     wrote |-> Modified(sc)]

\* comment_server_impl after the loop: the result and the write
CommentResult(entry, lines, sc, dry_run) ==
    [result |-> [modified |-> Modified(sc),
                 commented_lines |-> CommentedLines(lines, sc),
                 error |-> "None"],
     entry |-> IF Modified(sc) /\ ~dry_run
               THEN File(Flatten(ModifiedLines(lines, sc))) ELSE entry,
     wrote |-> Modified(sc) /\ ~dry_run]

\* check_and_comment_server_impl(file_path), abs the resolved path:
\* what it returns, the file afterwards, and whether it wrote the file
CheckAndCommentServerImpl(entry, abs) ==
    IF entry.kind # "file"
    THEN [result |-> [found |-> FALSE, matches |-> <<>>, modified |-> FALSE,
                      error |-> ScanError(entry.kind)],
          entry |-> entry, wrote |-> FALSE]
    ELSE The({The({CheckResult(entry, lines, sc, abs) : sc \in {Scan(lines)}}) :
                 lines \in {ReadLines(entry.data)}})

\* comment_server_impl(file_path, dry_run).  Lines 81-87 of the file are
\* indented one level deeper than line 80, which Python refuses; they are
\* read as the rest of the block that starts at line 76.
CommentServerImpl(entry, dry_run) ==
    IF entry.kind # "file"
    THEN [result |-> [modified |-> FALSE, commented_lines |-> <<>>,
                      error |-> ScanError(entry.kind)],
          entry |-> entry, wrote |-> FALSE]
    ELSE The({The({CommentResult(entry, lines, sc, dry_run) :
                      sc \in {Scan(lines)}}) :
                 lines \in {ReadLines(entry.data)}})

-----------------------------------------------------------------------------
(* Source files the scanner is run on.                                     *)

Indents == {Repeat(<<"WS">>, n) : n \in 0..MaxIndent}

Payloads == {<<>>, <<"x">>, <<"Q", "x", "Q">>, <<"WS", "SQ", "y", "SQ">>}

Marker(sp, payload) ==
    <<"/*">> \o sp \o <<"@ServerImpl", "(">> \o payload \o <<")">> \o sp \o <<"*/">>

MarkerLines ==
    {ind \o Marker(<<"WS">>, pay) \o <<"NL">> : ind \in Indents, pay \in Payloads}
    \cup {<<"x">> \o ind \o Marker(<<>>, <<"x">>) \o <<"WS", "x", "NL">> :
            ind \in Indents}

ProcLine == <<"WS", "/*--", "@ServerImpl", "(", "x", ")", "--*/", "NL">>

ClassA == <<"class", "WS", "A", "WS", ":", "WS", "public", "WS", "IServer">>

ClassLines ==
    { ClassA \o <<"WS", "{", "NL">>,
      <<"WS", "class", "WS", "B", "WS", "final", ":", "public", "WS", "IServer", "NL">>,
      <<"class", "WS", "A", "WS", ":", "WS", "public", "WS", "Other", "NL">>,
      Marker(<<"WS">>, <<"y">>) \o <<"WS">> \o ClassA }

Fillers == {<<"NL">>, <<"WS", "x", "NL">>}

ScanFiles ==
    {Flatten(<<m>> \o Repeat(<<fill>>, g) \o <<c>>) :
        m \in MarkerLines, g \in 0..MaxGap, c \in ClassLines, fill \in Fillers}
    \cup
    {Flatten(<<m>> \o <<mid>> \o Repeat(<<<<"NL">>>>, g) \o <<c>>) :
        m \in {<<"WS">> \o Marker(<<"WS">>, <<"x">>) \o <<"NL">>, ProcLine},
        mid \in {ProcLine, Marker(<<>>, <<"Q", "y", "Q">>) \o <<"NL">>,
                 Marker(<<>>, <<"y">>) \o <<"WS">> \o ClassA \o <<"NL">>},
        g \in 0..MaxGap, c \in ClassLines}

-----------------------------------------------------------------------------
(* Scanning one file, once or again.                                       *)

NoOp == [op |-> "none"]

InitScan ==
    /\ fs \in {[p \in AbsPaths |-> IF p = "/r/a.h" THEN e ELSE Missing] :
                e \in {File(c) : c \in ScanFiles} \cup {Missing, Dir}}
    /\ target = Missing
    /\ regsIn = <<>>
    /\ last = NoOp
    /\ scanned = [p \in AbsPaths |-> "no"]
    /\ patchedLists = {}

\* the history of a path after a scan of it returned r
Scanned(old, r, dry_run) ==
    IF r.result.error # "None" \/ dry_run THEN old
    ELSE IF r.wrote THEN "rewrote"
    ELSE IF old = "no" THEN "clean" ELSE old

\* a call of check_and_comment_server_impl(path)
ScanL3(path) ==
    \E abs \in {Resolve(path)} :
    \E r \in {CheckAndCommentServerImpl(fs[abs], abs)} :
        /\ fs' = [fs EXCEPT ![abs] = r.entry]
        /\ last' = [op |-> "scan3", abs |-> abs, dry_run |-> FALSE,
                    before |-> fs[abs], after |-> r.entry,
                    result |-> r.result, wrote |-> r.wrote,
                    again |-> scanned[abs]]
        /\ scanned' = [scanned EXCEPT ![abs] = Scanned(@, r, FALSE)]
        /\ UNCHANGED <<target, regsIn, patchedLists>>

\* a call of comment_server_impl(path, dry_run)
ScanL2(path, dry_run) ==
    \E abs \in {Resolve(path)} :
    \E r \in {CommentServerImpl(fs[abs], dry_run)} :
        /\ fs' = [fs EXCEPT ![abs] = r.entry]
        /\ last' = [op |-> "scan2", abs |-> abs, dry_run |-> dry_run,
                    before |-> fs[abs], after |-> r.entry,
                    result |-> r.result, wrote |-> r.wrote,
                    again |-> scanned[abs]]
        /\ scanned' = [scanned EXCEPT ![abs] = Scanned(@, r, dry_run)]
        /\ UNCHANGED <<target, regsIn, patchedLists>>

NextScan ==
    \/ ScanL3("a.h")
    \/ \E d \in BOOLEAN : ScanL2("a.h", d)

SpecScan == InitScan /\ [][NextScan]_vars

-----------------------------------------------------------------------------------------------------------------------------------------------------
(* The synthesizer.                                                        *)

RECURSIVE Join(_, _)
\* sep.join(ss)
Join(ss, sep) ==
    IF ss = <<>> THEN <<>>
    ELSE IF Len(ss) = 1 THEN ss[1]
    ELSE ss[1] \o sep \o Join(Tail(ss), sep)

\* f'#include "{file_path}"'
IncludeLine(abs) == <<"#include", "WS", "Q", abs, "Q">>

RECURSIVE IncludesNoDedup(_, _, _)
IncludesNoDedup(regs, i, seen_paths) ==
    IF i > Len(regs) THEN <<>>
    ELSE <<IncludeLine(Resolve(regs[i].file_path))>>
         \o IncludesNoDedup(regs, i + 1, seen_paths)

RECURSIVE IncludesFrom(_, _, _)
\* the loop of generate_include_statements from record i on
IncludesFrom(regs, i, seen_paths) ==
    IF i > Len(regs) THEN <<>>
    ELSE IF Resolve(regs[i].file_path) \in seen_paths
    THEN IncludesFrom(regs, i + 1, seen_paths)
    ELSE <<IncludeLine(Resolve(regs[i].file_path))>>
         \o IncludesFrom(regs, i + 1,
                         seen_paths \cup {Resolve(regs[i].file_path)})

\* generate_include_statements(registrations, library_dir)
GenerateIncludeStatements(regs) ==
    IF regs = <<>> THEN <<>> ELSE Join(IncludesFrom(regs, 1, {}), <<"NL">>)

Indent4 == <<"WS", "WS", "WS", "WS">>

\* f'    ServerProvider::RegisterServer<{class_name}>({quoted_content});'
RegisterLine(reg) ==
    Indent4 \o <<"ServerProvider::RegisterServer<">> \o reg.class_name
    \o <<">", "(", "Q">> \o reg.server_impl_content \o <<"Q", ")", ";">>

RECURSIVE RegisterLines(_, _)
RegisterLines(regs, i) ==
    IF i > Len(regs) THEN <<>>
    ELSE <<RegisterLine(regs[i])>> \o RegisterLines(regs, i + 1)

\* generate_registration_code(registrations)
GenerateRegistrationCode(regs) ==
    IF regs = <<>> THEN Indent4 \o <<"return", "WS", "false", ";">>
    ELSE Join(RegisterLines(regs, 1)
              \o <<Indent4 \o <<"return", "WS", "true", ";">>>>, <<"NL">>)

-----------------------------------------------------------------------------
(* The patcher of ServerProviderInit.h.                                    *)

\* (inline\s+Bool\s+Init\s*\(\s*\)\s*\{)\s*return\s+false\s*;(\s*\})
\* group 1 ends with item 11, group 2 is the items 18 and 19
pattern ==
    << Concat(<< Lit("inline"), Plus(Ws), Lit("Bool"), Plus(Ws), Lit("Init"), Star(Ws),
          Lit("("), Star(Ws), Lit(")"), Star(Ws), Lit("{"),
          Star(Ws), Lit("return"), Plus(Ws), Lit("false"), Star(Ws), Lit(";"),
          Star(Ws), Lit("}") >>) >>

\* r'\1\n' + registration_code + r'\2'
Replacement(registration_code) ==
    <<"ESC_1", "ESC_n">> \o registration_code \o <<"ESC_2">>

\* the template has an escape the regex engine rejects (re.error)
BadEscape(template) == \E i \in 1..Len(template) : template[i] = "ESC_d"

\* the template expanded for a match with groups g1, g2
Expand(template, g1, g2) ==
    Flatten([i \in 1..Len(template) |->
                IF template[i] = "ESC_1" THEN g1
                ELSE IF template[i] = "ESC_2" THEN g2
                ELSE IF template[i] = "ESC_n" THEN <<"NL">>
                ELSE <<template[i]>>] \o <<>>)

RECURSIVE SubFrom(_, _, _)
\* pattern.sub(template, content): content from position p on, with
\* every match replaced
SubFrom(template, content, p) ==
    The({IF ~m.ok THEN SubSeq(content, p, Len(content))
         ELSE SubSeq(content, p, m.start - 1)
              \o Expand(template,
                       SubSeq(content, m.start, m.ends[11] - 1),
                        SubSeq(content, m.ends[17], m.ends[19] - 1))
              \o SubFrom(template, content, m.ends[19]) :
            m \in {SearchFrom(pattern, content, p)}})

\* content.rfind(tok, 0, stop): 0-based, -1 when absent
RFind(content, tok, stop) ==
    IF \E k \in 0..(stop - 1) : content[k + 1] = tok
    THEN CHOOSE k \in 0..(stop - 1) :
            /\ content[k + 1] = tok
            /\ \A j \in (k + 1)..(stop - 1) : content[j + 1] # tok
    ELSE -1

\* content.find(tok, from): 0-based, -1 when absent
Find(content, tok, from) ==
    IF \E k \in from..(Len(content) - 1) : content[k + 1] = tok
    THEN CHOOSE k \in from..(Len(content) - 1) :
            /\ content[k + 1] = tok
            /\ \A j \in from..(k - 1) : content[j + 1] # tok
    ELSE -1

RECURSIVE SkipBlank(_, _, _)
\* while insert_pos < init_start and content[insert_pos] is blank
SkipBlank(content, insert_pos, init_start) ==
    IF insert_pos < init_start /\ content[insert_pos + 1] \in Ws
    THEN SkipBlank(content, insert_pos + 1, init_start)
    ELSE insert_pos

\* comment_end: two characters after the start of the next */, which is the
\* token after it; 1 (= -1 + 2) when there is none
CommentEnd(content, last_comment_pos) ==
    The({IF k = -1 THEN 1 ELSE k + 1 : k \in {Find(content, "*/", last_comment_pos)}})

\* where the includes go (0-based), init_start the start of the placeholder
InsertPos(content, init_start, last_include_pos, last_comment_pos) ==
    IF last_include_pos # -1
    THEN SkipBlank(content, Find(content, "NL", last_include_pos) + 1, init_start)
    ELSE IF last_comment_pos # -1
    THEN SkipBlank(content,
                   Find(content, "NL", CommentEnd(content, last_comment_pos)) + 1,
                   init_start)
    ELSE init_start

\* content[:insert_pos] + include_statements + '\n\n' + content[insert_pos:]
InsertAt(content, insert_pos, include_statements) ==
    SubSeq(content, 1, insert_pos) \o include_statements \o <<"NL", "NL">>
    \o SubSeq(content, insert_pos + 1, Len(content))

\* the insertion of the includes: the content afterwards and the offsets
WithIncludes(content, m, include_statements) ==
    IF include_statements # <<>> /\ m.ok
    THEN The({[content |-> InsertAt(content, pos, include_statements),
               init_start |-> m.start - 1, insert_pos |-> pos] :
                pos \in {InsertPos(content, m.start - 1,
                                   RFind(content, "#include", m.start - 1),
                                   RFind(content, "/**", m.start - 1))}})
    ELSE [content |-> content, init_start |-> -1, insert_pos |-> -1]

PatchFailed(entry, found, w, why) ==
    [result |-> [success |-> FALSE, error |-> why], entry |-> entry,
     wrote |-> FALSE, found |-> found,
     init_start |-> w.init_start, insert_pos |-> w.insert_pos]

NoOffsets == [init_start |-> -1, insert_pos |-> -1]

\* the end of update_server_factory_init: the check for no change, the write
Finish(entry, found, w, new_content, include_statements) ==
    IF new_content = w.content /\ include_statements = <<>>
    THEN PatchFailed(entry, found, w, "PlaceholderNotFound")
    ELSE [result |-> [success |-> TRUE, error |-> "None"],
          entry |-> File(new_content), wrote |-> TRUE, found |-> found,
          init_start |-> w.init_start, insert_pos |-> w.insert_pos]

\* update_server_factory_init with the file read and the placeholder
\* searched (m)
Patch(entry, m, template, include_statements) ==
    The({IF BadEscape(template) THEN PatchFailed(entry, m.ok, w, "Exception")
         ELSE Finish(entry, m.ok, w, SubFrom(template, w.content, 1),
                     include_statements) :
            w \in {WithIncludes(entry.data, m, include_statements)}})

\* update_server_factory_init(library_dir, registration_code,
\* include_statements), entry the file <library_dir>/include/ServerProviderInit.h
UpdateServerFactoryInit(entry, registration_code, include_statements) ==
    IF entry.kind = "missing"
    THEN PatchFailed(entry, FALSE, NoOffsets, "FileNotFound")
    ELSE IF entry.kind = "dir"
    THEN PatchFailed(entry, FALSE, NoOffsets, "Exception")
    ELSE The({Patch(entry, m, Replacement(registration_code),
                    include_statements) :
                 m \in {SearchFrom(pattern, entry.data, 1)}})

-----------------------------------------------------------------------------
(* Registration lists and target files the synthesizer and the patcher are *)
(* run on.                                                                 *)

Reg(class_name, content, path) ==
    [class_name |-> <<class_name>>, server_impl_content |-> content,
     file_path |-> path]

RECURSIVE SeqsUpTo(_, _)
\* the sequences over S of length at most n
SeqsUpTo(S, n) ==
    IF n = 0 THEN {<<>>}
    ELSE SeqsUpTo(S, n - 1)
         \cup {Append(q, x) : q \in {r \in SeqsUpTo(S, n - 1) : Len(r) = n - 1},
                              x \in S}

RegLists ==
    SeqsUpTo({Reg(c, <<"x">>, p) : c \in {"A", "B"}, p \in RawPaths}, MaxRegs)

PatchRegLists ==
    { <<>>,
      <<Reg("A", <<"x">>, "/r/a.h")>>,
      <<Reg("A", <<"x">>, "/r/a.h"), Reg("B", <<"y">>, "/r/b.h")>>,
      <<Reg("A", <<"ESC_1">>, "/r/a.h")>>,
      <<Reg("A", <<"ESC_d">>, "/r/a.h")>> }

Placeholder ==
    <<"inline", "WS", "Bool", "WS", "Init", "(", ")", "WS", "{", "NL",
      "WS", "return", "WS", "false", ";", "NL", "}", "NL">>

PlaceholderOneLine ==
    <<"inline", "WS", "Bool", "WS", "Init", "(", ")", "{",
      "return", "WS", "false", ";", "}">>

Blank(n) == Repeat(<<"NL">>, n)

TargetFiles ==
    { Placeholder,
      <<"x", "NL">> \o Placeholder \o <<"x", "NL">>,
      <<"/**", "x", "*/", "NL", "x", "NL">> \o Placeholder,
      <<"/**", "x", "*/", "WS">> \o Placeholder,
      <<"/**", "x", "NL">> \o Placeholder,
      <<"#include", "WS", "x", "NL", "/**", "x", "*/", "NL">> \o Placeholder,
      <<"#include", "WS", "x", "NL", "NL", "WS", "x", "NL">> \o Placeholder,
      <<"#include", "WS", "x", "WS">> \o Placeholder,
      <<"#include", "WS", "x", "WS">> \o PlaceholderOneLine,
      Placeholder \o <<"#include", "WS", "x", "NL">>,
      Placeholder \o Placeholder,
      <<"x", "NL">>,
      <<"#include", "WS", "x", "NL", "x", "NL">> }
    \cup {<<"/**", "NL", "x", "NL", "*/", "NL">> \o Blank(n) \o Placeholder :
            n \in 0..MaxBlank}
    \cup {<<"#include", "WS", "x", "NL">> \o Blank(n) \o Placeholder :
            n \in 0..MaxBlank}

-----------------------------------------------------------------------------
(* Patching the target file, once or again.                                *)

InitPatch ==
    /\ fs = [p \in AbsPaths |-> Missing]
    /\ target \in {File(c) : c \in TargetFiles} \cup {Missing, Dir}
    /\ regsIn = <<>>
    /\ last = NoOp
    /\ scanned = [p \in AbsPaths |-> "no"]
    /\ patchedLists = {}

\* a call of update_server_factory_init with the code generated for regs
\* and, when with_includes, the include statements generated for regs
PatchTarget(regs, with_includes) ==
    \E includes \in {IF with_includes THEN GenerateIncludeStatements(regs)
                     ELSE <<>>} :
    \E r \in {UpdateServerFactoryInit(target, GenerateRegistrationCode(regs),
                                      includes)} :
        /\ target' = r.entry
        /\ last' = [op |-> "patch", regs |-> regs, includes |-> includes,
                    before |-> target, after |-> r.entry,
                    result |-> r.result, wrote |-> r.wrote, found |-> r.found,
                    init_start |-> r.init_start, insert_pos |-> r.insert_pos]
        /\ UNCHANGED <<fs, regsIn, scanned, patchedLists>>

NextPatch == \E regs \in PatchRegLists, inc \in BOOLEAN : PatchTarget(regs, inc)

SpecPatch == InitPatch /\ [][NextPatch]_vars

-----------------------------------------------------------------------------
(* Generating the include statements of a registration list.               *)

InitIncl ==
    /\ fs = [p \in AbsPaths |-> Missing]
    /\ target = Missing
    /\ regsIn \in RegLists
    /\ last = NoOp
    /\ scanned = [p \in AbsPaths |-> "no"]
    /\ patchedLists = {}

\* a call of generate_include_statements(regsIn, library_dir)
GenerateIncludes ==
    /\ last.op = "none"
    /\ last' = [op |-> "includes", regs |-> regsIn,
                out |-> GenerateIncludeStatements(regsIn)]
    /\ UNCHANGED <<fs, target, regsIn, scanned, patchedLists>>

\* a call of generate_registration_code(regsIn)
GenerateCode ==
    /\ last.op = "none"
    /\ last' = [op |-> "code", regs |-> regsIn,
                out |-> GenerateRegistrationCode(regsIn)]
    /\ UNCHANGED <<fs, target, regsIn, scanned, patchedLists>>

NextIncl == GenerateIncludes \/ GenerateCode

SpecIncl == InitIncl /\ [][NextIncl]_vars

-----------------------------------------------------------------------------
(* The batch processor.                                                    *)

RECURSIVE Registrations(_, _)
\* the records main appends for result['matches'], from match i on
Registrations(matches, i) ==
    IF i > Len(matches) THEN <<>>
    ELSE <<[class_name |-> matches[i].class_name,
            server_impl_content |-> matches[i].server_impl_content,
            file_path |-> matches[i].file_path]>>
         \o Registrations(matches, i + 1)

AfterFileNotSaved(acc, i, abs, r) ==
    IF r.result.error # "None"
    THEN [acc EXCEPT !.failed = @ \cup {i}]
    ELSE [fs |-> acc.fs,
          regs |-> acc.regs \o (IF r.result.found
                                THEN Registrations(r.result.matches, 1)
                                ELSE <<>>),
          failed |-> acc.failed]

\* one turn of the loop over file_paths: a file that fails is skipped
AfterFile(acc, i, abs, r) ==
    IF r.result.error # "None"
    THEN [acc EXCEPT !.failed = @ \cup {i}]
    ELSE [fs |-> [acc.fs EXCEPT ![abs] = r.entry],
          regs |-> acc.regs \o (IF r.result.found
                                THEN Registrations(r.result.matches, 1)
                                ELSE <<>>),
          failed |-> acc.failed]

RECURSIVE ScanAll(_, _, _)
\* the loop over file_paths from argument i on
ScanAll(file_paths, i, acc) ==
    IF i > Len(file_paths) THEN acc
    ELSE The({ScanAll(file_paths, i + 1,
                      AfterFile(acc, i, abs,
                                CheckAndCommentServerImpl(acc.fs[abs], abs))) :
                 abs \in {Resolve(file_paths[i])}})

ExitCodeZero(result) == 0

\* the exit code after update_server_factory_init returned result
ExitCode(result) ==
    IF result.error # "None" THEN 1 ELSE IF result.success THEN 0 ELSE 1

NotPatched == [success |-> FALSE, error |-> "None"]

\* main after the loop over file_paths
AfterScans(acc, tgt) ==
    IF acc.regs = <<>>
    THEN [exit |-> 0, fs |-> acc.fs, target |-> tgt, regs |-> acc.regs,
          failed |-> acc.failed, patch_called |-> FALSE,
          patch_result |-> NotPatched, patch_wrote |-> FALSE]
    ELSE The({[exit |-> ExitCode(r.result), fs |-> acc.fs, target |-> r.entry,
               regs |-> acc.regs, failed |-> acc.failed,
               patch_called |-> TRUE, patch_result |-> r.result,
               patch_wrote |-> r.wrote] :
                 r \in {UpdateServerFactoryInit(
                            tgt, GenerateRegistrationCode(acc.regs),
                            GenerateIncludeStatements(acc.regs))}})

\* main(), file_paths = sys.argv[2:]: with no file argument it exits 1
MainRun(file_paths, files, tgt) ==
    IF file_paths = <<>>
    THEN [exit |-> 1, fs |-> files, target |-> tgt, regs |-> <<>>,
          failed |-> {}, patch_called |-> FALSE, patch_result |-> NotPatched,
          patch_wrote |-> FALSE]
    ELSE The({AfterScans(acc, tgt) :
                 acc \in {ScanAll(file_paths, 1,
                                  [fs |-> files, regs |-> <<>>, failed |-> {}])}})

-----------------------------------------------------------------------------
(* Batch runs over two source files and the target file.                   *)

PairFile(payload, class_name) ==
    <<"WS">> \o Marker(<<"WS">>, payload) \o <<"NL">>
    \o <<"class", "WS", class_name, "WS", ":", "WS", "public", "WS", "IServer",
         "WS", "{", "NL">>

BatchFilesA ==
    { File(PairFile(<<"Q", "x", "Q">>, "A")),
      File(PairFile(<<"Q", "ESC_d", "Q">>, "A")),
      File(PairFile(<<"x">>, "A") \o <<"NL">> \o PairFile(<<"y">>, "B")),
      Missing }

BatchFilesB ==
    { File(PairFile(<<"Q", "y", "Q">>, "B")),
      File(<<"x", "NL">>),
      Dir }

BatchTargets ==
    { File(Placeholder),
      File(<<"x", "NL">> \o Placeholder \o <<"x", "NL">>),
      File(<<"/**", "NL", "x", "NL", "*/", "NL">> \o Placeholder),
      File(<<"/**", "x", "*/", "NL", "x", "NL">> \o Placeholder),
      File(<<"/**", "x", "*/", "WS">> \o Placeholder),
      File(<<"#include", "WS", "x", "NL", "NL">> \o Placeholder),
      File(<<"x", "NL">>),
      Missing }

ArgLists ==
    { <<>>, <<"a.h">>, <<"b.h">>, <<"a.h", "b.h">>, <<"b.h", "a.h">>,
      <<"./a.h", "a.h">> }

InitBatch ==
    /\ fs \in {[p \in AbsPaths |-> IF p = "/r/a.h" THEN a ELSE b] :
                a \in BatchFilesA, b \in BatchFilesB}
    /\ target \in BatchTargets
    /\ regsIn = <<>>
    /\ last = NoOp
    /\ scanned = [p \in AbsPaths |-> "no"]
    /\ patchedLists = {}

\* a run of main with the file arguments file_paths
Main(file_paths) ==
    \E r \in {MainRun(file_paths, fs, target)} :
        /\ fs' = r.fs
        /\ target' = r.target
        /\ last' = [op |-> "main", args |-> file_paths, fsBefore |-> fs,
                    before |-> target, after |-> r.target, regs |-> r.regs,
                    failed |-> r.failed, patch_called |-> r.patch_called,
                    patch_result |-> r.patch_result,
                    patch_wrote |-> r.patch_wrote, exit |-> r.exit,
                    repeat |-> file_paths \in patchedLists,
                    retry |-> /\ last.op = "main"
                              /\ last.args = file_paths
                              /\ last.patch_called
                              /\ last.patch_result.error # "None"]
        /\ patchedLists' = IF r.patch_called /\ r.patch_result.success
                           THEN patchedLists \cup {file_paths}
                           ELSE patchedLists
        /\ UNCHANGED <<regsIn, scanned>>

NextBatch == \E file_paths \in ArgLists : Main(file_paths)

SpecBatch == InitBatch /\ [][NextBatch]_vars

-----
(* Claims about the scanner and rewriter, checked under SpecScan.          *)

IsScan == last.op \in {"scan3", "scan2"} /\ last.before.kind = "file"

LinesBefore == ReadLines(last.before.data)
LinesAfter == ReadLines(last.after.data)

\* the 1-based lines the last scan reported as accepted
AcceptedLines ==
    IF last.op = "scan3"
    THEN {last.result.matches[k].line_number :
             k \in 1..Len(last.result.matches)}
    ELSE {last.result.commented_lines[k].line_number :
             k \in 1..Len(last.result.commented_lines)}

\* line is an unprocessed marker: the annotation pattern finds it and the
\* processed pattern does not
IsMarker(line) ==
    LineInfo(line, "annotation").ok /\ ~LineInfo(line, "processed").ok

IsClassDecl(line) == LineInfo(line, "class").ok

\* C1: a rewriting scan of a file that a rewriting scan has completed on
\* before modifies nothing, writes nothing and reports no match.
C1_SecondPassFindsNothing ==
    (IsScan /\ ~last.dry_run /\ last.again # "no")
        => /\ ~last.result.modified
           /\ ~last.wrote
           /\ last.after = last.before
           /\ AcceptedLines = {}

\* a second rewriting scan of a file whose first scan rewrote a marker
C1_Witness ==
    /\ IsScan /\ last.op = "scan3" /\ last.again = "rewrote"
    /\ \E i \in 1..Len(LinesBefore) : LineInfo(LinesBefore[i], "processed").ok
    /\ last.result.matches = <<>>

\* the whitespace a line starts with
LeadingWs(line) == SubSeq(line, 1, RunEnd(Star(Ws), line, 1) - 1)

\* C2: every accepted marker line is rewritten to its own leading
\* whitespace followed by /*--@ServerImpl(<raw payload>)--*/.
C2_IndentationPreserved ==
    (IsScan /\ last.wrote)
        => \A i \in AcceptedLines :
              LinesAfter[i] =
                  LeadingWs(LinesBefore[i])
                  \o <<"/*--", "@ServerImpl", "(">>
                  \o LineInfo(LinesBefore[i], "annotation").payload
                  \o <<")", "--*/", "NL">>

\* C5: an unprocessed marker on line i is accepted exactly when one of the
\* lines i+1..i+5 of the file is a qualifying class declaration; a rejected
\* marker leaves its line as it was, records no match and raises no error.
C5_LookaheadWindow ==
    IsScan =>
        /\ last.result.error = "None"
        /\ \A i \in 1..Len(LinesBefore) :
              IsMarker(LinesBefore[i]) =>
                  /\ (i \in AcceptedLines) <=>
                        (\E j \in (i + 1)..(i + 5) :
                            j <= Len(LinesBefore) /\ IsClassDecl(LinesBefore[j]))
                  /\ (i \notin AcceptedLines) => LinesAfter[i] = LinesBefore[i]

\* a marker accepted for a class declaration exactly 5 lines below it
C5_Witness ==
    /\ IsScan /\ last.op = "scan3"
    /\ \E i \in AcceptedLines :
          /\ i + 5 <= Len(LinesBefore)
          /\ IsClassDecl(LinesBefore[i + 5])
          /\ \A j \in (i + 1)..(i + 4) : ~IsClassDecl(LinesBefore[j])
          /\ LinesAfter[i] # LinesBefore[i]

-----------------------------------------------------------------------------
(* Claims about the include generator, checked under SpecIncl.             *)

\* the resolved path of each record
ResolvedPaths(regs) == [i \in 1..Len(regs) |-> Resolve(regs[i].file_path)]

\* the records whose resolved path no earlier record has
FirstOccurrences(regs) ==
    {i \in 1..Len(regs) :
        \A j \in 1..(i - 1) : ResolvedPaths(regs)[j] # ResolvedPaths(regs)[i]}

\* the k-th smallest element of a set of numbers
Kth(S, k) == CHOOSE i \in S : Cardinality({j \in S : j < i}) = k - 1

\* C6: the include statements are one directive per distinct resolved
\* path, in the order in which the paths first occur in the records, each
\* separated from the next by a newline; no records give the empty string.
C6_OneIncludePerPath ==
    last.op = "includes" =>
        /\ Len(last.out) =
              IF last.regs = <<>> THEN 0
              ELSE 6 * Cardinality(FirstOccurrences(last.regs)) - 1
        /\ \A k \in 1..Cardinality(FirstOccurrences(last.regs)) :
              /\ SubSeq(last.out, 6 * k - 5, 6 * k - 1) =
                    <<"#include", "WS", "Q",
                      ResolvedPaths(last.regs)[Kth(FirstOccurrences(last.regs), k)],
                      "Q">>
              /\ k > 1 => last.out[6 * k - 6] = "NL"

\* include statements generated for three records of two files, the file
\* of the first record being that of the third
C6_Witness ==
    /\ last.op = "includes"
    /\ Len(last.regs) = 3
    /\ FirstOccurrences(last.regs) = {1, 2}
    /\ ResolvedPaths(last.regs)[3] = ResolvedPaths(last.regs)[1]
    /\ Len(last.out) = 11

-----------------------------------------------------------------------------
(* Claims about the patcher, checked under SpecPatch.                      *)

IsPatch == last.op = "patch" /\ last.before.kind = "file"

\* C3: patching a target file without the placeholder changes nothing and
\* reports an error, with success false, whether or not include
\* statements are supplied.
C3_AbsentPlaceholderIsError ==
    (IsPatch /\ ~last.found)
        => /\ last.after = last.before
           /\ last.result.error # "None"
           /\ ~last.result.success

\* C4: patching a target file without the placeholder, with no include
\* statements, reports the placeholder-not-found error, writes nothing and
\* leaves the file as it was.
C4_PlaceholderNotFound ==
    (IsPatch /\ ~last.found /\ last.includes = <<>>)
        => /\ last.result.error = "PlaceholderNotFound"
           /\ ~last.wrote
           /\ last.after = last.before

\* the 0-based offset of the last token tok before the placeholder, -1
\* when there is none
LastBefore(tok) ==
    IF \E k \in 0..(last.init_start - 1) : last.before.data[k + 1] = tok
    THEN CHOOSE k \in 0..(last.init_start - 1) :
            /\ last.before.data[k + 1] = tok
            /\ \A j \in (k + 1)..(last.init_start - 1) :
                  last.before.data[j + 1] # tok
    ELSE -1

\* C9: when the placeholder is found and include statements are supplied,
\* they are inserted at or before the start of the placeholder: with an
\* include directive or, failing that, a block comment before the
\* placeholder, after it and before the first non-blank text that follows
\* its line; with neither, immediately before the placeholder; and the
\* file afterwards is the file before with the include statements and the
\* new body inserted, nothing else moved.
C9_InsertionAnchor ==
    (IsPatch /\ last.found /\ last.includes # <<>> /\ last.result.success)
        => /\ last.insert_pos <= last.init_start
           /\ (LastBefore("#include") = -1 /\ LastBefore("/**") = -1)
                 => last.insert_pos = last.init_start
           /\ LastBefore("#include") # -1
                 => last.insert_pos > LastBefore("#include")
           /\ (LastBefore("#include") = -1 /\ LastBefore("/**") # -1)
                 => last.insert_pos > LastBefore("/**")
           /\ last.insert_pos \in 0..Len(last.before.data)
           /\ SubSeq(last.after.data, 1, last.insert_pos) =
                 SubSeq(last.before.data, 1, last.insert_pos)
           /\ SubSeq(last.after.data, last.insert_pos + 1,
                     last.insert_pos + Len(last.includes)) = last.includes

-----------------------------------------------------------------------------
(* Claims about the batch processor, checked under SpecBatch.              *)

IsMain == last.op = "main"

\* the file has exactly one unprocessed marker, and a qualifying class
\* declaration among the five lines below it
OnePair(entry) ==
    /\ entry.kind = "file"
    /\ Cardinality({i \in 1..Len(ReadLines(entry.data)) :
                       IsMarker(ReadLines(entry.data)[i])}) = 1
    /\ \E i \in 1..Len(ReadLines(entry.data)) :
          /\ IsMarker(ReadLines(entry.data)[i])
          /\ \E j \in (i + 1)..Min(i + 5, Len(ReadLines(entry.data))) :
                IsClassDecl(ReadLines(entry.data)[j])

\* a run over two files with one pair each, the target file with the
\* placeholder and without an include directive
TwoPairsRun ==
    /\ IsMain
    /\ Len(last.args) = 2
    /\ Resolve(last.args[1]) # Resolve(last.args[2])
    /\ \A k \in 1..2 : OnePair(last.fsBefore[Resolve(last.args[k])])
    /\ last.before.kind = "file"
    /\ SearchFrom(pattern, last.before.data, 1).ok
    /\ \A k \in 1..Len(last.before.data) : last.before.data[k] # "#include"

\* the target file of a TwoPairsRun as the claim describes it, m the
\* placeholder in the file before
TwoPairsTarget(m) ==
    SubSeq(last.before.data, 1, m.start - 1)
    \o <<"#include", "WS", "Q", Resolve(last.args[1]), "Q", "NL">>
    \o <<"#include", "WS", "Q", Resolve(last.args[2]), "Q", "NL", "NL">>
    \o SubSeq(last.before.data, m.start, m.ends[11] - 1)
    \o <<"NL">>
    \o <<"WS", "WS", "WS", "WS", "ServerProvider::RegisterServer<">>
    \o last.regs[1].class_name
    \o <<">", "(", "Q">> \o last.regs[1].server_impl_content
    \o <<"Q", ")", ";", "NL">>
    \o <<"WS", "WS", "WS", "WS", "ServerProvider::RegisterServer<">>
    \o last.regs[2].class_name
    \o <<">", "(", "Q">> \o last.regs[2].server_impl_content
    \o <<"Q", ")", ";", "NL">>
    \o <<"WS", "WS", "WS", "WS", "return", "WS", "true", ";">>
    \o SubSeq(last.before.data, m.ends[17], Len(last.before.data))

\* C7: a run over two files with one valid pair each, against a target
\* file with the placeholder and no include directive, leaves the target
\* file with the two include directives (in file order) immediately before
\* the placeholder and the body replaced by the two registration
\* statements (in file order) and 'return true;'.
C7_EndToEnd ==
    TwoPairsRun
        => /\ Len(last.regs) = 2
           /\ \A k \in 1..2 : last.regs[k].file_path = Resolve(last.args[k])
           /\ last.after.kind = "file"
           /\ last.after.data =
                 TwoPairsTarget(SearchFrom(pattern, last.before.data, 1))

\* C8 as stated: a run exits 0 or 1, and a run in which the scan of a
\* supplied file fails exits 1.
C8_ScanFailureExits1 ==
    IsMain => /\ last.exit \in {0, 1}
              /\ last.failed # {} => last.exit = 1

\* C8: a run exits 1 when no file is supplied or the patcher reports an
\* error, and 0 otherwise, that is when no registration was collected or
\* the patcher succeeded; a supplied file whose scan fails is skipped and
\* does not by itself change the exit code.
C8_ExitCode ==
    IsMain =>
        /\ last.exit \in {0, 1}
        /\ last.exit = 1 <=>
              \/ last.args = <<>>
              \/ last.patch_called /\ ~last.patch_result.success
        /\ last.patch_called <=> last.regs # <<>>
        /\ last.patch_result.success <=>
              (last.patch_called /\ last.patch_result.error = "None")

\* a run that skipped a file whose scan failed, patched the target file
\* with the registrations of the other file and exited 0
C8_Witness ==
    /\ IsMain
    /\ last.failed # {}
    /\ last.patch_called /\ last.patch_result.success
    /\ last.exit = 0

\* C10: a run over file arguments that an earlier run patched the target
\* file for collects no registration, does not call the patcher and
\* leaves the target file as it was.
C10_RepeatedRunKeepsTarget ==
    (IsMain /\ last.repeat)
        => /\ last.regs = <<>>
           /\ ~last.patch_called
           /\ last.after = last.before

\* a repeated run over two files against the target file the first run
\* put the registrations in
C10_Witness ==
    /\ IsMain /\ last.repeat
    /\ Len(last.args) = 2
    /\ last.after = last.before
    /\ last.before.kind = "file"
    /\ \E k \in 1..Len(last.before.data) :
          last.before.data[k] = "ServerProvider::RegisterServer<"
    /\ \E k \in 1..Len(last.before.data) : last.before.data[k] = "#include"

\* the lines of a file that hold an unprocessed marker with a qualifying
\* class declaration among the five lines below it
AcceptableLines(entry) ==
    {i \in 1..Len(ReadLines(entry.data)) :
        /\ IsMarker(ReadLines(entry.data)[i])
        /\ \E j \in (i + 1)..Min(i + 5, Len(ReadLines(entry.data))) :
              IsClassDecl(ReadLines(entry.data)[j])}

\* the last run called the patcher and the patcher reported an error
PatchStageFailed ==
    IsMain /\ last.patch_called /\ last.patch_result.error # "None"

\* C11: after a run whose patch stage reports an error, the source files
\* that were scanned are on disk with every accepted marker in processed
\* form, the rewrite is not undone and the target file is not written; a
\* run over the same file arguments that follows immediately collects no
\* registration, exits 0 and does not write the target file.
C11_RewriteSurvivesPatchFailure ==
    /\ PatchStageFailed =>
          /\ \A k \in 1..Len(last.args) :
                (k \notin last.failed) =>
                    /\ fs[Resolve(last.args[k])].kind = "file"
                    /\ AcceptableLines(fs[Resolve(last.args[k])]) = {}
          /\ \E k \in 1..Len(last.args) :
                /\ k \notin last.failed
                /\ AcceptableLines(last.fsBefore[Resolve(last.args[k])]) # {}
                /\ fs[Resolve(last.args[k])] #
                      last.fsBefore[Resolve(last.args[k])]
          /\ ~last.patch_wrote
          /\ last.after = last.before
    /\ (IsMain /\ last.retry) =>
          /\ last.regs = <<>>
          /\ last.exit = 0
          /\ ~last.patch_called
          /\ ~last.patch_wrote
          /\ last.after = last.before
          /\ fs = last.fsBefore

\* the run that follows a run over two files whose patch stage failed for
\* want of the target file: the markers it finds are processed ones
C11_Witness ==
    /\ IsMain /\ last.retry
    /\ Len(last.args) = 2
    /\ Resolve(last.args[1]) # Resolve(last.args[2])
    /\ last.before = Missing
    /\ last.regs = <<>> /\ last.exit = 0
    /\ last.failed = {}
    /\ fs[Resolve(last.args[1])].kind = "file"
    /\ \E i \in 1..Len(ReadLines(fs[Resolve(last.args[1])].data)) :
          LineInfo(ReadLines(fs[Resolve(last.args[1])].data)[i],
                   "processed").ok

====
